---- MODULE Spec2Model ----
(***************************************************************************)
(* Model of fg21sim/configs/manager.py: the ConfigManager that validates   *)
(* configuration layers against a ConfigObj specification, merges them,    *)
(* and derives paths, frequencies and logging settings from the result.    *)
(*                                                                         *)
(* Strings that the code takes apart (paths, "sep"-joined key strings) are *)
(* sequences of tokens: a separator ("/", "."), the home marker "~", or a  *)
(* name that contains none of them.  Concatenating the tokens gives the    *)
(* Python string.                                                          *)
(***************************************************************************)
EXTENDS Integers, Sequences, FiniteSets, TLC

VARIABLES configspec, config, userconfig, sinks, last

vars == <<configspec, config, userconfig, sinks, last>>

(***************************************************************************)
(* Bounds of the model.                                                    *)
(***************************************************************************)
\* most entries written in one configuration layer
MaxEntries == 2
\* largest "start", "stop" and "step" of the frequency layers
MaxStart == 5
MaxStop == 10
MaxStep == 3
\* numerals the float check can read: -MaxNum .. MaxNum
MaxNum == 12

\* the most configs a constructor is given
MaxConfigs == 3

(***************************************************************************)
(* Values held in a configuration tree.                                    *)
(***************************************************************************)
Val(t, ss, n, l) == [t |-> t, ss |-> ss, n |-> n, l |-> l]

StrVal(toks) == Val("str", toks, 0, <<>>)

StrList(items) == Val("strlist", items, 0, <<>>)

NumVal(n) == Val("num", <<>>, n, <<>>)

NumList(l) == Val("numlist", <<>>, 0, l)

NoneVal == Val("none", <<>>, 0, <<>>)

SectionVal == Val("section", <<>>, 0, <<>>)

(***************************************************************************)
(* Trees: a ConfigObj is a nested dict.  secs holds the paths of its       *)
(* sections (the root is <<>>), vals maps the path of each scalar to its   *)
(* value.                                                                  *)
(***************************************************************************)
EmptyTree == [secs |-> {<<>>}, vals |-> <<>>]

Parent(p) == SubSeq(p, 1, Len(p) - 1)

IsPrefix(p, q) == Len(p) <= Len(q) /\ SubSeq(q, 1, Len(p)) = p

Paths(tree) == tree.secs \cup DOMAIN tree.vals

\* the proper, non-root prefixes of a path
Ancestors(p) == {SubSeq(p, 1, i) : i \in 1..(Len(p) - 1)}

\* the tree that holds exactly the given entries (path, value)
TreeOf(entries) ==
    [secs |-> {<<>>} \cup UNION {Ancestors(e.path) : e \in {x \in entries : x.sect = FALSE}}
                     \cup UNION {Ancestors(e.path) \cup {e.path} : e \in {x \in entries : x.sect}},
     vals |-> [p \in {e.path : e \in {x \in entries : x.sect = FALSE}} |->
                  (CHOOSE e \in entries : e.path = p /\ e.sect = FALSE).val]]

Entry(path, val) == [path |-> path, val |-> val, sect |-> FALSE]

SectEntry(path) == [path |-> path, val |-> NoneVal, sect |-> TRUE]

(***************************************************************************)
(* The specification tree (self._configspec).  Each field declares a       *)
(* check, its options or minimum, and possibly a default.                  *)
(***************************************************************************)
FieldSpec(check, opts, hasmin, hasdefault, default) ==
    [check |-> check, opts |-> opts, hasmin |-> hasmin,
     hasdefault |-> hasdefault, default |-> default]

OptionOf(opts, default) == FieldSpec("option", opts, FALSE, TRUE, StrVal(default))

StringOf(default) == FieldSpec("string", {}, FALSE, TRUE, default)

FloatMin0 == FieldSpec("float", {}, TRUE, TRUE, NoneVal)

FloatListOf(default) == FieldSpec("float_list", {}, FALSE, TRUE, default)

ConfigSpec ==
    [secs |-> {<<>>, <<"frequency">>, <<"logging">>, <<"galactic">>,
               <<"galactic", "synchrotron">>},
     fields |->
        (<<"frequency", "type">> :> OptionOf({<<"custom">>, <<"calc">>}, <<"custom">>))
     @@ (<<"frequency", "frequencies">> :> FloatListOf(StrList(<<>>)))
     @@ (<<"frequency", "start">> :> FloatMin0)
     @@ (<<"frequency", "stop">> :> FloatMin0)
     @@ (<<"frequency", "step">> :> FloatMin0)
     @@ (<<"logging", "level">> :> OptionOf({<<"DEBUG">>, <<"INFO">>, <<"WARNING">>,
                                             <<"ERROR">>, <<"CRITICAL">>}, <<"INFO">>))
     @@ (<<"logging", "format">> :> StringOf(StrVal(<<"%(message)s">>)))
     @@ (<<"logging", "datefmt">> :> StringOf(StrVal(<<"%Y-%m-%d">>)))
     @@ (<<"logging", "filename">> :> StringOf(StrVal(<<>>)))
     @@ (<<"logging", "filemode">> :> OptionOf({<<"w">>, <<"a">>}, <<"a">>))
     @@ (<<"logging", "stream">> :> OptionOf({<<"stderr">>, <<"stdout">>, <<>>}, <<"stderr">>))
     @@ (<<"galactic", "synchrotron", "template">> :> StringOf(NoneVal))]

(***************************************************************************)
(* The checks of the validator (validate.Validator), as far as the         *)
(* specification uses them.  Each returns whether the value passes and the *)
(* converted value.                                                        *)
(***************************************************************************)
NumRange == (0 - MaxNum)..MaxNum

\* the text of each number the float check reads
Numerals == [n \in NumRange |-> ToString(n)]

IsNumeral(tok) == \E n \in NumRange : Numerals[n] = tok

NumeralValue(tok) == CHOOSE n \in NumRange : Numerals[n] = tok

Passed(v) == [ok |-> TRUE, val |-> v]

Failed == [ok |-> FALSE, val |-> NoneVal]

is_float(fs, v) ==
    IF v.t = "str" /\ Len(v.ss) = 1 /\ IsNumeral(v.ss[1])
    THEN IF fs.hasmin /\ NumeralValue(v.ss[1]) < 0
         THEN Failed
         ELSE Passed(NumVal(NumeralValue(v.ss[1])))
    ELSE Failed

is_float_list(fs, v) ==
    IF v.t = "strlist" /\ \A i \in 1..Len(v.ss) : IsNumeral(v.ss[i])
    THEN Passed(NumList([i \in 1..Len(v.ss) |-> NumeralValue(v.ss[i])]))
    ELSE Failed

is_option(fs, v) == IF v.t = "str" /\ v.ss \in fs.opts THEN Passed(v) ELSE Failed

is_string(fs, v) == IF v.t = "str" THEN Passed(v) ELSE Failed

check(fs, v) ==
    CASE fs.check = "float" -> is_float(fs, v)
      [] fs.check = "float_list" -> is_float_list(fs, v)
      [] fs.check = "option" -> is_option(fs, v)
      [] OTHER -> is_string(fs, v)

\* the check of a missing value: the default, converted, or a failure
check_missing(fs) ==
    IF ~fs.hasdefault THEN Failed
    ELSE IF fs.default.t = "none" THEN Passed(NoneVal)
    ELSE check(fs, fs.default)

(***************************************************************************)
(* ConfigObj.validate(validator, preserve_errors=True) and flatten_errors. *)
(***************************************************************************)
FieldsAt(spec, p) == {q \in DOMAIN spec.fields : Parent(q) = p}

SubsecsAt(spec, p) == {q \in spec.secs : q # <<>> /\ Parent(q) = p}

\* section p of the specification is validated: it is a section of the
\* configuration, or it is missing and gets created
IsValidated(spec, raw, p) ==
    p \in spec.secs /\ \A r \in Ancestors(p) \cup {p} : r \notin DOMAIN raw.vals

IsCreated(spec, raw, p) == IsValidated(spec, raw, p) /\ p \notin raw.secs

\* the result of one scalar of the specification: "true", "false" (missing
\* with no default) or "error"
ScalarRes(spec, raw, q) ==
    IF q \in DOMAIN raw.vals
    THEN IF check(spec.fields[q], raw.vals[q]).ok THEN "true" ELSE "error"
    ELSE IF q \in raw.secs THEN "error"
    ELSE IF ~spec.fields[q].hasdefault THEN "false"
    ELSE IF check_missing(spec.fields[q]).ok THEN "true" ELSE "error"

RECURSIVE SectionRes(_, _, _)
\* the result of one section: "true" when every member passes, "false" when
\* the section was created and every member is missing, else "dict"
SectionRes(spec, raw, p) ==
    LET out == {ScalarRes(spec, raw, q) : q \in FieldsAt(spec, p)}
               \cup {IF q \in DOMAIN raw.vals THEN "error" ELSE SectionRes(spec, raw, q) :
                        q \in SubsecsAt(spec, p)}
    IN  IF out \subseteq {"true"} THEN "true"
        ELSE IF IsCreated(spec, raw, p) /\ out \subseteq {"false"} THEN "false"
        ELSE "dict"

ErrorEntry(sec, haskey, key, res) == [sec |-> sec, haskey |-> haskey, key |-> key, res |-> res]

Last(p) == p[Len(p)]

\* flatten_errors(config, results): the (section_list, key, result) triples
flatten_errors(spec, raw) ==
    LET dicts == {p \in spec.secs : IsValidated(spec, raw, p) /\ SectionRes(spec, raw, p) = "dict"}
    IN  UNION {
          {ErrorEntry(p, TRUE, Last(q), "False") :
              q \in {x \in FieldsAt(spec, p) : ScalarRes(spec, raw, x) = "false"}}
          \cup {ErrorEntry(p, TRUE, Last(q), "error") :
              q \in {x \in FieldsAt(spec, p) : ScalarRes(spec, raw, x) = "error" /\ x \notin raw.secs}}
          \cup {IF check_missing(spec.fields[q]).ok
                THEN ErrorEntry(p, TRUE, Last(q), "error")
                ELSE ErrorEntry(q, FALSE, "", "error") :
              q \in {x \in FieldsAt(spec, p) : ScalarRes(spec, raw, x) = "error" /\ x \in raw.secs}}
          \cup {ErrorEntry(p, TRUE, Last(q), "error") :
              q \in {x \in SubsecsAt(spec, p) : x \in DOMAIN raw.vals}}
          \cup {ErrorEntry(q, FALSE, "", "False") :
              q \in {x \in SubsecsAt(spec, p) : x \notin DOMAIN raw.vals
                                                /\ SectionRes(spec, raw, x) = "false"}}
          : p \in dicts}

\* the configuration after a validation that passed: missing sections
\* created, values converted, defaults filled in, other entries kept
Validated(spec, raw) ==
    [secs |-> raw.secs \cup spec.secs,
     vals |-> [q \in DOMAIN raw.vals \cup DOMAIN spec.fields |->
                 IF q \notin DOMAIN spec.fields THEN raw.vals[q]
                 ELSE IF q \in DOMAIN raw.vals THEN check(spec.fields[q], raw.vals[q]).val
                 ELSE check_missing(spec.fields[q]).val]]

Message(e) ==
    [msg |-> IF e.haskey
             THEN IF e.res = "False" THEN "key is missing" ELSE "key failed validation"
             ELSE "section is missing",
     sec |-> e.sec, key |-> e.key]

\* a validation that reports the first error only
validate_fail_fast(spec, raw) ==
    IF SectionRes(spec, raw, <<>>) = "true"
    THEN [raised |-> "none", tree |-> Validated(spec, raw), error_msg |-> {}]
    ELSE [raised |-> "ConfigError", tree |-> raw,
          error_msg |-> {Message(CHOOSE e \in flatten_errors(spec, raw) : TRUE)}]

\* ConfigManager._validate: the validated configuration, or ConfigError with
\* one message per flattened error
validate(spec, raw) ==
    IF SectionRes(spec, raw, <<>>) = "true"
    THEN [raised |-> "none", tree |-> Validated(spec, raw), error_msg |-> {}]
    ELSE [raised |-> "ConfigError", tree |-> raw,
          error_msg |-> {Message(e) : e \in flatten_errors(spec, raw)}]

(***************************************************************************)
(* Section.merge(indict): every entry of indict is written over this       *)
(* section; where both hold a section the merge recurses.                  *)
(***************************************************************************)
\* some entry of indict at or above q replaces what this section holds there
Overwritten(base, over, q) ==
    \E i \in 1..Len(q) :
        LET r == SubSeq(q, 1, i)
        IN  r \in Paths(over) /\ ~(r \in base.secs /\ r \in over.secs)

\* a merge that, when indict brings nothing new, leaves indict alone
merge_or_replace(base, over) ==
    LET keptSecs == {q \in base.secs : ~Overwritten(base, over, q)}
        keptVals == {q \in DOMAIN base.vals : ~Overwritten(base, over, q)}
        merged == [secs |-> over.secs \cup keptSecs,
                   vals |-> [q \in DOMAIN over.vals \cup keptVals |->
                               IF q \in DOMAIN over.vals THEN over.vals[q]
                               ELSE base.vals[q]]]
    IN  IF merged = base THEN over ELSE merged

merge(base, over) ==
    LET keptSecs == {q \in base.secs : ~Overwritten(base, over, q)}
        keptVals == {q \in DOMAIN base.vals : ~Overwritten(base, over, q)}
    IN  [secs |-> over.secs \cup keptSecs,
         vals |-> [q \in DOMAIN over.vals \cup keptVals |->
                     IF q \in DOMAIN over.vals THEN over.vals[q] ELSE base.vals[q]]]

(***************************************************************************)
(* Strings as token sequences: str.split, str.join and the os.path         *)
(* functions the manager calls.                                            *)
(***************************************************************************)
RECURSIVE Split(_, _)
\* toks.split(sep): the groups of tokens between the separators
Split(toks, sep) ==
    IF \A i \in 1..Len(toks) : toks[i] # sep THEN <<toks>>
    ELSE LET i == CHOOSE j \in 1..Len(toks) :
                     toks[j] = sep /\ \A k \in 1..(j - 1) : toks[k] # sep
         IN  <<SubSeq(toks, 1, i - 1)>> \o Split(SubSeq(toks, i + 1, Len(toks)), sep)

RECURSIVE JoinStr(_)
\* the Python string a token sequence stands for
JoinStr(toks) == IF toks = <<>> THEN "" ELSE toks[1] \o JoinStr(Tail(toks))

RECURSIVE JoinToks(_, _)
\* sep.join(groups), as tokens
JoinToks(groups, sep) ==
    IF groups = <<>> THEN <<>>
    ELSE IF Len(groups) = 1 THEN groups[1]
    ELSE groups[1] \o <<sep>> \o JoinToks(Tail(groups), sep)

StartsWith(toks, tok) == toks # <<>> /\ toks[1] = tok

EndsWith(toks, tok) == toks # <<>> /\ toks[Len(toks)] = tok

RECURSIVE RStrip(_, _)
RStrip(toks, tok) ==
    IF EndsWith(toks, tok) THEN RStrip(SubSeq(toks, 1, Len(toks) - 1), tok) ELSE toks

\* the environment of the process: $HOME and the working directory
HomeDir == <<"/", "home", "/", "u">>

Cwd == <<"/", "work">>

\* os.path.expanduser: "~" alone or before "/" becomes $HOME; "~name" of an
\* unknown user is left as it is
expanduser(path) ==
    IF ~StartsWith(path, "~") THEN path
    ELSE IF Len(path) > 1 /\ path[2] # "/" THEN path
    ELSE LET joined == RStrip(HomeDir, "/") \o Tail(path)
         IN  IF joined = <<>> THEN <<"/">> ELSE joined

isabs(path) == StartsWith(path, "/")

\* relative paths resolved against the working directory instead
dirname_cwd(path) == Cwd

\* os.path.dirname: up to the last "/", trailing slashes dropped unless the
\* head is slashes only
dirname(path) ==
    LET slashes == {i \in 1..Len(path) : path[i] = "/"}
        i == IF slashes = {} THEN 0 ELSE CHOOSE j \in slashes : \A k \in slashes : k <= j
        head == SubSeq(path, 1, i)
    IN  IF head # <<>> /\ \E k \in 1..Len(head) : head[k] # "/"
        THEN RStrip(head, "/") ELSE head

\* os.path.join(a, b)
join(a, b) ==
    IF StartsWith(b, "/") THEN b
    ELSE IF a = <<>> \/ EndsWith(a, "/") THEN a \o b
    ELSE a \o <<"/">> \o b

RECURSIVE NormComps(_, _, _)
\* the loop of os.path.normpath over the components
NormComps(comps, slashes, acc) ==
    IF comps = <<>> THEN acc
    ELSE LET c == Head(comps)
         IN  IF c = <<>> \/ c = <<".">> THEN NormComps(Tail(comps), slashes, acc)
             ELSE IF c # <<"..">> \/ (slashes = 0 /\ acc = <<>>)
                     \/ (acc # <<>> /\ acc[Len(acc)] = <<"..">>)
                  THEN NormComps(Tail(comps), slashes, Append(acc, c))
             ELSE IF acc # <<>>
                  THEN NormComps(Tail(comps), slashes, SubSeq(acc, 1, Len(acc) - 1))
             ELSE NormComps(Tail(comps), slashes, acc)

normpath(path) ==
    LET slashes == IF ~StartsWith(path, "/") THEN 0
                   ELSE IF Len(path) >= 2 /\ path[2] = "/" /\ ~(Len(path) >= 3 /\ path[3] = "/")
                        THEN 2 ELSE 1
        comps == NormComps(Split(path, "/"), slashes, <<>>)
        out == [i \in 1..slashes |-> "/"] \o JoinToks(comps, "/")
    IN  IF path = <<>> \/ out = <<>> THEN <<".">> ELSE out

abspath(path) == normpath(IF isabs(path) THEN path ELSE join(Cwd, path))

(***************************************************************************)
(* ConfigManager.getn: reduce(dict.get, keys, self._config).               *)
(***************************************************************************)
\* what the walk holds: a section (a dict), a value, or None
DictNode(p) == [isdict |-> TRUE, path |-> p, val |-> SectionVal]

ValueNode(v) == [isdict |-> FALSE, path |-> <<>>, val |-> v]

\* dict.get(node, key): TypeError unless node is a dict, None for no entry
dict_get(cfg, node, key) ==
    IF ~node.isdict THEN [raised |-> "TypeError", node |-> ValueNode(NoneVal)]
    ELSE LET q == Append(node.path, key)
         IN  [raised |-> "none",
              node |-> IF q \in cfg.secs THEN DictNode(q)
                       ELSE IF q \in DOMAIN cfg.vals THEN ValueNode(cfg.vals[q])
                       ELSE ValueNode(NoneVal)]

RECURSIVE reduce(_, _, _)
reduce(cfg, keys, node) ==
    IF keys = <<>> THEN [raised |-> "none", node |-> node]
    ELSE LET r == dict_get(cfg, node, Head(keys))
         IN  IF r.raised # "none" THEN r ELSE reduce(cfg, Tail(keys), r.node)

ListKeys(keys) == [isstr |-> FALSE, toks |-> keys]

StrKeys(toks) == [isstr |-> TRUE, toks |-> toks]

\* a lookup that takes a string of keys for one key
getn_unsplit(cfg, keys, sep) ==
    reduce(cfg, IF keys.isstr THEN <<JoinStr(keys.toks)>> ELSE keys.toks, DictNode(<<>>))

getn(cfg, keys, sep) ==
    LET groups == Split(keys.toks, sep)
        keylist == IF keys.isstr THEN [i \in 1..Len(groups) |-> JoinStr(groups[i])]
                   ELSE keys.toks
    IN  reduce(cfg, keylist, DictNode(<<>>))

(***************************************************************************)
(* ConfigManager.get_path.                                                 *)
(***************************************************************************)
NoUser == [set |-> FALSE, path |-> <<>>]

get_path(cfg, user, keys) ==
    LET r == getn(cfg, keys, "/")
    IN  IF r.raised # "none"
        THEN [raised |-> r.raised, path |-> <<>>, warned |-> FALSE]
        ELSE IF r.node.isdict \/ r.node.val.t # "str"
        THEN [raised |-> "TypeError", path |-> <<>>, warned |-> FALSE]
        ELSE LET path == expanduser(r.node.val.ss)
             IN  IF isabs(path) THEN [raised |-> "none", path |-> path, warned |-> FALSE]
                 ELSE IF user.set
                 THEN [raised |-> "none", path |-> join(dirname(user.path), path),
                       warned |-> FALSE]
                 ELSE [raised |-> "none", path |-> path, warned |-> TRUE]

(***************************************************************************)
(* ConfigManager.frequencies.                                              *)
(***************************************************************************)
Abs(n) == IF n < 0 THEN 0 - n ELSE n

\* int(a / b): true division, truncated toward zero
IntOfQuotient(a, b) ==
    IF (a < 0) = (b < 0) THEN Abs(a) \div Abs(b) ELSE 0 - (Abs(a) \div Abs(b))

\* a count that leaves the "+ 1" out, so that "stop" is never reached
num_exclusive(start, stop, step) == IntOfQuotient(stop - start, step)

\* num = int((stop - start) / step + 1); in exact arithmetic
\* (stop - start) / step + 1 = (stop - start + step) / step
num_of(start, stop, step) == IntOfQuotient(stop - start + step, step)

FreqResult(raised, ret, num) == [raised |-> raised, ret |-> ret, num |-> num]

frequencies(cfg) ==
    LET type == getn(cfg, StrKeys(<<"frequency", "/", "type">>), "/")
        custom == getn(cfg, StrKeys(<<"frequency", "/", "frequencies">>), "/")
        start == getn(cfg, StrKeys(<<"frequency", "/", "start">>), "/")
        stop == getn(cfg, StrKeys(<<"frequency", "/", "stop">>), "/")
        step == getn(cfg, StrKeys(<<"frequency", "/", "step">>), "/")
    IN  IF type.raised # "none" THEN FreqResult(type.raised, NoneVal, 0)
        ELSE IF type.node.val = StrVal(<<"custom">>)
        THEN IF custom.raised # "none" THEN FreqResult(custom.raised, NoneVal, 0)
             ELSE FreqResult("none", custom.node.val, 0)
        ELSE IF \E r \in {start, stop, step} : r.raised # "none"
        THEN FreqResult("TypeError", NoneVal, 0)
        ELSE IF start.node.val.t # "num" \/ stop.node.val.t # "num"
        THEN FreqResult("TypeError", NoneVal, 0)
        ELSE IF step.node.val.t # "num" THEN FreqResult("TypeError", NoneVal, 0)
        ELSE IF step.node.val.n = 0 THEN FreqResult("ZeroDivisionError", NoneVal, 0)
        ELSE LET a == start.node.val.n
                 b == stop.node.val.n
                 d == step.node.val.n
                 num == num_of(a, b, d)
             IN  FreqResult("none", NumList([i \in 1..num |-> a + d * (i - 1)]), num)

(***************************************************************************)
(* ConfigManager.logging: the handlers are built while the record is       *)
(* assembled.  logging.FileHandler(logfile, mode) opens the file when it   *)
(* is constructed.                                                         *)
(***************************************************************************)
StreamHandler(stream) == [kind |-> "stream", target |-> JoinStr(stream), mode |-> ""]

FileHandler(logfile, mode) ==
    [kind |-> "file", target |-> JoinStr(logfile), mode |-> JoinStr(mode)]

NoLogconf ==
    [level |-> "", format |-> "", datefmt |-> "", filemode |-> "", handlers |-> <<>>]

logging(cfg) ==
    LET conf == [k \in {"stream", "filename", "filemode", "level", "format", "datefmt"} |->
                    getn(cfg, ListKeys(<<"logging", k>>), "/").node.val]
        handlers == (IF conf["stream"].ss # <<>>
                     THEN <<StreamHandler(conf["stream"].ss)>> ELSE <<>>)
                    \o (IF conf["filename"].ss # <<>>
                        THEN <<FileHandler(conf["filename"].ss, conf["filemode"].ss)>>
                        ELSE <<>>)
    IN  [raised |-> "none",
         logconf |-> [level |-> JoinStr(conf["level"].ss),
                      format |-> JoinStr(conf["format"].ss),
                      datefmt |-> JoinStr(conf["datefmt"].ss),
                      filemode |-> JoinStr(conf["filemode"].ss),
                      handlers |-> handlers],
         \* the handler objects that now exist, and with them the open files
         created |-> {handlers[i] : i \in 1..Len(handlers)}]

(***************************************************************************)
(* Configuration sources: the lines of a config, or the name of a file.    *)
(* status is what reading and parsing it gives; tree is the parsed         *)
(* configuration when status is "ok".                                      *)
(***************************************************************************)
Source(kind, status, tree) == [kind |-> kind, status |-> status, tree |-> tree]

NoSource == Source("none", "none", EmptyTree)

\* ConfigObj(config, interpolation=False, configspec=...): a file that does
\* not exist reads as an empty configuration (file_error is off)
ConfigObj(src) ==
    IF src.status = "malformed" THEN [raised |-> "ConfigObjError", tree |-> EmptyTree]
    ELSE IF src.status = "unreadable" THEN [raised |-> "OSError", tree |-> EmptyTree]
    ELSE IF src.status = "absent" THEN [raised |-> "none", tree |-> EmptyTree]
    ELSE [raised |-> "none", tree |-> src.tree]

ReadResult(raised, cfg, errors) == [raised |-> raised, config |-> cfg, errors |-> errors]

\* a read that merges the parsed layer before it validates it
read_config_merge_first(spec, cfg, src) ==
    LET parsed == ConfigObj(src)
        newconfig == validate(spec, parsed.tree)
    IN  IF parsed.raised = "ConfigObjError" THEN ReadResult("ConfigError", cfg, {})
        ELSE IF parsed.raised # "none" THEN ReadResult(parsed.raised, cfg, {})
        ELSE IF newconfig.raised # "none"
        THEN ReadResult(newconfig.raised, merge(cfg, parsed.tree), newconfig.error_msg)
        ELSE ReadResult("none", merge(cfg, newconfig.tree), {})

read_config(spec, cfg, src) ==
    LET parsed == ConfigObj(src)
        newconfig == validate(spec, parsed.tree)
    IN  IF parsed.raised = "ConfigObjError" THEN ReadResult("ConfigError", cfg, {})
        ELSE IF parsed.raised # "none" THEN ReadResult(parsed.raised, cfg, {})
        ELSE IF newconfig.raised # "none"
        THEN ReadResult(newconfig.raised, cfg, newconfig.error_msg)
        ELSE ReadResult("none", merge(cfg, newconfig.tree), {})

UserResult(raised, cfg, user, errors) ==
    [raised |-> raised, config |-> cfg, userconfig |-> user, errors |-> errors]

\* a read that does not look whether a user config is already recorded
read_userconfig_unguarded(spec, cfg, user, path, file) ==
    IF file.status \in {"absent", "unreadable"}
    THEN UserResult("ConfigError", cfg, user, {})
    ELSE LET r == read_config(spec, cfg, Source("lines", file.status, file.tree))
         IN  IF r.raised # "none" THEN UserResult(r.raised, cfg, user, r.errors)
             ELSE UserResult("none", r.config, [set |-> TRUE, path |-> abspath(path)], {})

\* a read that records the path before it reads the file
read_userconfig_record_first(spec, cfg, user, path, file) ==
    LET recorded == [set |-> TRUE, path |-> abspath(path)]
    IN  IF user.set THEN UserResult("ConfigError", cfg, user, {})
        ELSE IF file.status \in {"absent", "unreadable"}
        THEN UserResult("ConfigError", cfg, recorded, {})
        ELSE LET r == read_config(spec, cfg, Source("lines", file.status, file.tree))
             IN  IF r.raised # "none" THEN UserResult(r.raised, cfg, recorded, r.errors)
                 ELSE UserResult("none", r.config, recorded, {})

\* read_userconfig(userconfig), with file the state of that file on disk
read_userconfig(spec, cfg, user, path, file) ==
    IF user.set THEN UserResult("ConfigError", cfg, user, {})
    ELSE IF file.status \in {"absent", "unreadable"}
    THEN UserResult("ConfigError", cfg, user, {})
    ELSE LET r == read_config(spec, cfg, Source("lines", file.status, file.tree))
         IN  IF r.raised # "none" THEN UserResult(r.raised, cfg, user, r.errors)
             ELSE UserResult("none", r.config, [set |-> TRUE, path |-> abspath(path)], {})

RECURSIVE read_all_skip_failed(_, _, _)
\* a loop that goes on to the next config when one fails
read_all_skip_failed(spec, cfg, configs) ==
    IF configs = <<>> THEN ReadResult("none", cfg, {})
    ELSE read_all_skip_failed(spec, read_config(spec, cfg, Head(configs)).config,
                              Tail(configs))

RECURSIVE read_all(_, _, _)
\* the loop of __init__ over configs: the first failure ends it
read_all(spec, cfg, configs) ==
    IF configs = <<>> THEN ReadResult("none", cfg, {})
    ELSE LET r == read_config(spec, cfg, Head(configs))
         IN  IF r.raised # "none" THEN r ELSE read_all(spec, r.config, Tail(configs))

\* ConfigManager(configs): the defaults validated, then each config merged
construct(spec, configs) ==
    LET default == validate(spec, EmptyTree)
    IN  IF default.raised # "none" THEN ReadResult(default.raised, EmptyTree, default.error_msg)
        ELSE read_all(spec, default.tree, configs)

(***************************************************************************)
(* The inputs of the operations.                                           *)
(***************************************************************************)
TemplatePath == <<"galactic", "synchrotron", "template">>

\* the entries a layer may write: valid values, a value that fails its
\* check, a key the specification does not declare
EntryChoices ==
    {Entry(<<"frequency", "step">>, StrVal(<<"-3">>)),
     Entry(<<"logging", "filename">>, StrVal(<<"run.log">>)),
     Entry(TemplatePath, StrVal(<<"data", "/", "in.txt">>)),
     Entry(TemplatePath, StrVal(<<"/", "abs", "/", "t.fits">>)),
     Entry(TemplatePath, StrVal(<<"~", "/", "t.fits">>)),
     Entry(<<"frequency", "bogus">>, StrVal(<<"1">>))}

\* no entry lies at or below the path of another
Consistent(entries) ==
    \A e1, e2 \in entries : e1 # e2 => ~IsPrefix(e1.path, e2.path)

LayersUpTo(n) ==
    {TreeOf(es) : es \in {x \in SUBSET EntryChoices : Cardinality(x) <= n /\ Consistent(x)}}

Layers == LayersUpTo(MaxEntries)

\* what a file on disk may hold
FileLayers ==
    {EmptyTree,
     TreeOf({Entry(<<"frequency", "type">>, StrVal(<<"calc">>))}),
     TreeOf({Entry(<<"frequency", "step">>, StrVal(<<"-3">>))})}

Sources ==
    {Source("lines", "ok", t) : t \in Layers}
    \cup {Source("lines", "malformed", EmptyTree)}
    \cup {Source("file", st, EmptyTree) : st \in {"ok", "malformed", "absent", "unreadable"}}

UserFiles ==
    {Source("file", "ok", t) : t \in FileLayers}
    \cup {Source("file", st, EmptyTree) : st \in {"malformed", "absent", "unreadable"}}

UserPaths == {<<"/", "home", "/", "u", "/", "cfg.conf">>, <<"conf", "/", "user.conf">>}

\* the keys and separator of a getn call
GetnCall(keys, sep) == [keys |-> keys, sep |-> sep]

GetnCalls ==
    {GetnCall(ListKeys(<<"frequency", "type">>), "/"),
     GetnCall(ListKeys(<<"frequency", "type", "x">>), "/"),
     GetnCall(ListKeys(<<"frequency", "frequencies", "x">>), "/"),
     GetnCall(ListKeys(<<"nosuch", "x">>), "/"),
     GetnCall(ListKeys(<<"nosuch">>), "/"),
     GetnCall(StrKeys(<<"frequency", "/", "type">>), "/"),
     GetnCall(StrKeys(<<"frequency", ".", "type">>), "."),
     GetnCall(StrKeys(<<"frequency", ".", "type">>), "/"),
     GetnCall(StrKeys(<<"galactic", "/", "synchrotron", "/", "template">>), "/"),
     GetnCall(ListKeys(<<"galactic", "synchrotron", "template">>), "/"),
     GetnCall(StrKeys(<<"frequency", "/", "type", "/", "x">>), "/"),
     GetnCall(StrKeys(<<"nosuch">>), "/"),
     GetnCall(ListKeys(<<>>), "/"),
     GetnCall(StrKeys(<<>>), "/")}

\* the configs the manager is constructed with: none, or one list of lines
InitConfigs ==
    {<<>>,
     <<Source("lines", "ok", TreeOf({Entry(<<"logging", "filename">>, StrVal(<<"run.log">>))}))>>}

PathKeyArgs ==
    {StrKeys(<<"galactic", "/", "synchrotron", "/", "template">>),
     ListKeys(<<"logging", "filename">>),
     ListKeys(<<"frequency", "start">>),
     ListKeys(<<"nosuch", "x">>)}

(***************************************************************************)
(* The state: the manager's fields, the log sinks that exist in the        *)
(* process, and the last call with its outcome.                            *)
(***************************************************************************)
NoKeys == ListKeys(<<>>)

NoLast ==
    [op |-> "init", configs |-> <<>>, src |-> NoSource, upath |-> <<>>,
     keys |-> NoKeys, sep |-> "",
     raised |-> "none", ret |-> NoneVal, isdict |-> FALSE, num |-> 0,
     had_user |-> FALSE, errors |-> {}, logconf |-> NoLogconf, warned |-> FALSE]

\* ConfigManager(configs) returned: __init__ sets no attribute userconfig
Init ==
    \E configs \in InitConfigs :
        /\ configspec = ConfigSpec
        /\ construct(ConfigSpec, configs).raised = "none"
        /\ config = construct(ConfigSpec, configs).config
        /\ userconfig = NoUser
        /\ sinks = {}
        /\ last = [NoLast EXCEPT !.configs = configs]

ReadConfig ==
    \E src \in Sources :
        LET r == read_config(configspec, config, src)
        IN  /\ config' = r.config
            /\ last' = [NoLast EXCEPT !.op = "read_config", !.src = src,
                                      !.raised = r.raised, !.errors = r.errors,
                                      !.had_user = userconfig.set]
            /\ UNCHANGED <<configspec, userconfig, sinks>>

ReadUserconfig ==
    \E path \in UserPaths, file \in UserFiles :
        LET r == read_userconfig(configspec, config, userconfig, path, file)
        IN  /\ config' = r.config
            /\ userconfig' = r.userconfig
            /\ last' = [NoLast EXCEPT !.op = "read_userconfig", !.src = file,
                                      !.upath = path, !.raised = r.raised,
                                      !.errors = r.errors, !.had_user = userconfig.set]
            /\ UNCHANGED <<configspec, sinks>>

GetN ==
    \E call \in GetnCalls :
        LET r == getn(config, call.keys, call.sep)
        IN  /\ last' = [NoLast EXCEPT !.op = "getn", !.keys = call.keys, !.sep = call.sep,
                                      !.raised = r.raised, !.ret = r.node.val,
                                      !.isdict = r.node.isdict,
                                      !.had_user = userconfig.set]
            /\ UNCHANGED <<configspec, config, userconfig, sinks>>

GetPath ==
    \E keys \in PathKeyArgs :
        LET r == get_path(config, userconfig, keys)
        IN  /\ last' = [NoLast EXCEPT !.op = "get_path", !.keys = keys, !.sep = "/",
                                      !.raised = r.raised, !.ret = StrVal(r.path),
                                      !.warned = r.warned, !.had_user = userconfig.set]
            /\ UNCHANGED <<configspec, config, userconfig, sinks>>

Frequencies ==
    LET r == frequencies(config)
    IN  /\ last' = [NoLast EXCEPT !.op = "frequencies", !.raised = r.raised,
                                  !.ret = r.ret, !.num = r.num,
                                  !.had_user = userconfig.set]
        /\ UNCHANGED <<configspec, config, userconfig, sinks>>

Logging ==
    LET r == logging(config)
    IN  /\ sinks' = sinks \cup r.created
        /\ last' = [NoLast EXCEPT !.op = "logging", !.raised = r.raised,
                                  !.logconf = r.logconf, !.had_user = userconfig.set]
        /\ UNCHANGED <<configspec, config, userconfig>>

Next ==
    \/ ReadConfig
    \/ ReadUserconfig
    \/ GetN
    \/ GetPath
    \/ Frequencies
    \/ Logging

Spec == Init /\ [][Next]_vars

(***************************************************************************)
(* The frequencies of a manager constructed with one layer that sets the   *)
(* frequency section: ConfigManager([layer]).frequencies.                  *)
(***************************************************************************)
FreqLayers ==
    {TreeOf({Entry(<<"frequency", "type">>, StrVal(<<t>>)),
             Entry(<<"frequency", "start">>, StrVal(<<Numerals[a]>>)),
             Entry(<<"frequency", "stop">>, StrVal(<<Numerals[b]>>)),
             Entry(<<"frequency", "step">>, StrVal(<<Numerals[d]>>))}) :
        t \in {"calc", "custom"}, a \in 0..MaxStart, b \in 0..MaxStop, d \in 0..MaxStep}

InitFreq ==
    /\ configspec = ConfigSpec
    /\ \E layer \in FreqLayers :
          LET r == construct(ConfigSpec, <<Source("lines", "ok", layer)>>)
          IN  r.raised = "none" /\ config = r.config
    /\ userconfig = NoUser
    /\ sinks = {}
    /\ last = NoLast

NextFreq == Frequencies

SpecFreq == InitFreq /\ [][NextFreq]_vars

(***************************************************************************)
(* _validate on its own, as __init__ and read_config call it: over small   *)
(* specifications whose fields may or may not declare a default.           *)
(***************************************************************************)
SmallFields == {<<"a", "x">>, <<"a", "y">>, <<"b", "z">>, <<"b", "c", "w">>, <<"t">>}

SmallSecs == {<<>>, <<"a">>, <<"b">>, <<"b", "c">>}

\* a section that declares nothing, which some specifications hold as well
EmptySec == <<"b", "e">>

SmallSpecs ==
    {[secs |-> SmallSecs \cup extra,
      fields |-> [q \in SmallFields |->
                    FieldSpec("string", {}, FALSE, q \in withdefault, StrVal(<<"d">>))]] :
        withdefault \in SUBSET SmallFields, extra \in {{}, {EmptySec}}}

SmallRaws ==
    {EmptyTree,
     TreeOf({Entry(<<"a", "x">>, StrVal(<<"1">>))}),
     TreeOf({SectEntry(<<"b">>)}),
     TreeOf({Entry(<<"b", "c", "w">>, StrVal(<<"1">>)), Entry(<<"u">>, StrVal(<<"1">>))})}

InitValidate ==
    /\ configspec \in SmallSpecs
    /\ config = EmptyTree
    /\ userconfig = NoUser
    /\ sinks = {}
    /\ last = NoLast

Validate ==
    \E raw \in SmallRaws :
        LET r == validate(configspec, raw)
        IN  /\ last' = [NoLast EXCEPT !.op = "validate",
                                      !.src = Source("lines", "ok", raw),
                                      !.raised = r.raised, !.errors = r.error_msg,
                                      !.ret = IF r.raised = "none"
                                              THEN r.tree.vals[<<"t">>] ELSE NoneVal]
            /\ UNCHANGED <<configspec, config, userconfig, sinks>>

NextValidate == Validate

SpecValidate == InitValidate /\ [][NextValidate]_vars

(***************************************************************************)
(* A manager constructed with no configs that is given configs one by one, *)
(* up to the first that fails: ConfigManager(), read_config(c1), ...       *)
(* last.configs holds the configs given so far.                            *)
(***************************************************************************)
ConstructSources ==
    {Source("lines", "ok", TreeOf({Entry(<<"logging", "filename">>, StrVal(<<"run.log">>))})),
     Source("lines", "ok", TreeOf({Entry(TemplatePath, StrVal(<<"data", "/", "in.txt">>))})),
     Source("lines", "ok", TreeOf({Entry(<<"frequency", "bogus">>, StrVal(<<"1">>))})),
     Source("file", "absent", EmptyTree),
     Source("lines", "ok", TreeOf({Entry(<<"frequency", "step">>, StrVal(<<"-3">>))})),
     Source("lines", "malformed", EmptyTree),
     Source("file", "unreadable", EmptyTree)}

InitConstruct ==
    /\ configspec = ConfigSpec
    /\ construct(ConfigSpec, <<>>).raised = "none"
    /\ config = construct(ConfigSpec, <<>>).config
    /\ userconfig = NoUser
    /\ sinks = {}
    /\ last = NoLast

ReadConfigs ==
    /\ last.raised = "none"
    /\ Len(last.configs) < MaxConfigs
    /\ \E src \in ConstructSources :
          LET r == read_config(configspec, config, src)
          IN  /\ config' = r.config
              /\ last' = [NoLast EXCEPT !.op = "read_config", !.src = src,
                                        !.configs = Append(last.configs, src),
                                        !.raised = r.raised, !.errors = r.errors]
    /\ UNCHANGED <<configspec, userconfig, sinks>>

NextConstruct == ReadConfigs

SpecConstruct == InitConstruct /\ [][NextConstruct]_vars

(***************************************************************************)
(* Properties.                                                             *)
(***************************************************************************)
FreqType == config.vals[<<"frequency", "type">>]

FreqStart == config.vals[<<"frequency", "start">>]

FreqStop == config.vals[<<"frequency", "stop">>]

FreqStep == config.vals[<<"frequency", "step">>]

\* the keys a getn call walks
WalkedKeys ==
    IF last.keys.isstr
    THEN LET groups == Split(last.keys.toks, last.sep)
         IN  [i \in 1..Len(groups) |-> JoinStr(groups[i])]
    ELSE last.keys.toks

\* C1: once a user config is recorded, a further read_userconfig fails with
\* ConfigError, whatever its path and file, and leaves the merged
\* configuration and the recorded path as they were.
C1_SecondUserconfigFails ==
    /\ [](last.op = "read_userconfig" /\ last.had_user => last.raised = "ConfigError")
    /\ [][last'.op = "read_userconfig" /\ userconfig.set
             => config' = config /\ userconfig' = userconfig]_vars

C1_Witness ==
    /\ last.op = "read_userconfig" /\ last.had_user
    /\ last.src.status = "ok" /\ last.src.tree = EmptyTree
    /\ last.raised = "ConfigError"
    /\ userconfig.set /\ userconfig.path # abspath(last.upath)

\* C2: a read_config or read_userconfig that fails (source unreadable or
\* malformed, or validation reports a violation) leaves the merged
\* configuration identical to what it was before the call.
C2_FailedReadKeepsConfig ==
    [][last'.op \in {"read_config", "read_userconfig"} /\ last'.raised # "none"
          => config' = config]_vars

C2_Witness ==
    /\ last.op = "read_config" /\ last.raised = "ConfigError"
    /\ last.errors # {} /\ last.src.tree # EmptyTree
    /\ config # construct(ConfigSpec, <<>>).config

\* C3: after a successful read_config of a layer, every declared field the
\* layer sets holds the layer's value, and every declared field the layer
\* does not set holds the value it had before the call.
C3_AbsentFieldsKeepValue ==
    [][last'.op = "read_config" /\ last'.raised = "none"
          => LET layer == ConfigObj(last'.src).tree
             IN  \A q \in DOMAIN configspec.fields :
                    IF q \in DOMAIN layer.vals
                    THEN config'.vals[q] = check(configspec.fields[q], layer.vals[q]).val
                    ELSE config'.vals[q] = config.vals[q]]_vars

\* C4: the sections and fields of the merged configuration are those of
\* the specification; a key the specification does not declare never
\* appears in it.
C4_ShapeIsSchema ==
    /\ config.secs = configspec.secs
    /\ DOMAIN config.vals = DOMAIN configspec.fields

C4_Witness ==
    /\ last.op = "read_config" /\ last.raised = "none"
    /\ <<"frequency", "bogus">> \in DOMAIN last.src.tree.vals
    /\ <<"frequency", "bogus">> \in DOMAIN config.vals

\* the value get_path reads, home-expanded, and the directory of the
\* recorded user config: all of the recorded path but "/name"
C5_Value == getn(config, last.keys, "/").node.val

C5_Expanded ==
    IF C5_Value.ss # <<>> /\ C5_Value.ss[1] = "~"
    THEN <<"/", "home", "/", "u">> \o Tail(C5_Value.ss)
    ELSE C5_Value.ss

C5_Dir == SubSeq(userconfig.path, 1, Len(userconfig.path) - 2)

\* C5: get_path returns an absolute (home-expanded) value unchanged; a
\* relative value joined onto the directory of the recorded user config;
\* and, with no user config recorded, the relative value as it is, without
\* raising.
C5_PathResolution ==
    (/\ last.op = "get_path"
     /\ getn(config, last.keys, "/").raised = "none"
     /\ ~getn(config, last.keys, "/").node.isdict
     /\ C5_Value.t = "str")
    => /\ last.raised = "none"
       /\ last.ret.ss =
            IF C5_Expanded # <<>> /\ C5_Expanded[1] = "/" THEN C5_Expanded
            ELSE IF userconfig.set THEN C5_Dir \o <<"/">> \o C5_Expanded
            ELSE C5_Expanded
       /\ last.warned = (~userconfig.set
                         /\ ~(C5_Expanded # <<>> /\ C5_Expanded[1] = "/"))

C5_Witness ==
    /\ last.op = "get_path"
    /\ userconfig.set /\ userconfig.path = <<"/", "home", "/", "u", "/", "cfg.conf">>
    /\ C5_Value.ss = <<"data", "/", "in.txt">>
    /\ last.ret.ss = <<"/", "home", "/", "u", "/", "data", "/", "in.txt">>

\* some level before the last is not a section of the merged tree
C6_ThroughMissing ==
    \E i \in 1..(Len(WalkedKeys) - 1) : SubSeq(WalkedKeys, 1, i) \notin config.secs

\* C6: getn on a path with an intermediate level that is absent, or is a
\* value and not a section, fails with KeyNotFoundError.
C6_KeyNotFound ==
    last.op = "getn" /\ C6_ThroughMissing => last.raised = "KeyNotFoundError"

C6_Witness ==
    /\ last.op = "getn" /\ C6_ThroughMissing
    /\ last.keys = ListKeys(<<"frequency", "type", "x">>)
    /\ last.raised = "TypeError"

\* C7: with a type other than "custom" and a step of 0, frequencies fails
\* with InvalidConfigError.
C7_ZeroStepInvalidConfig ==
    (/\ last.op = "frequencies"
     /\ FreqType # StrVal(<<"custom">>)
     /\ FreqStep = NumVal(0))
    => last.raised = "InvalidConfigError"

C7_Witness ==
    /\ last.op = "frequencies"
    /\ FreqType # StrVal(<<"custom">>)
    /\ FreqStep = NumVal(0)
    /\ last.raised = "ZeroDivisionError"

\* the fields of the specification that declare no default
C8_NoDefault == {q \in DOMAIN configspec.fields : ~configspec.fields[q].hasdefault}

C8_KeyMissing(q) == [msg |-> "key is missing", sec |-> Parent(q), key |-> Last(q)]

C8_SectionMissing(p) == [msg |-> "section is missing", sec |-> p, key |-> ""]

\* a section below the root in which nothing can pass: no field at any
\* depth declares a default, and no section in it is without fields
C8_NothingPasses(p) ==
    /\ p # <<>> /\ p \in configspec.secs
    /\ \A q \in DOMAIN configspec.fields : IsPrefix(p, q) => q \in C8_NoDefault
    /\ \A r \in configspec.secs :
          IsPrefix(p, r) => \E q \in DOMAIN configspec.fields : IsPrefix(r, q)

C8_Omitted == last.op = "validate" /\ last.src.tree = EmptyTree

C9_LoggingCreatesNothing ==
    [][last'.op = "logging"
          => sinks' = sinks /\ config' = config /\ userconfig' = userconfig]_vars

C9_Witness ==
    /\ last.op = "logging"
    /\ [kind |-> "file", target |-> "run.log", mode |-> "a"] \in sinks

\* floor((stop - start) / step) + 1, for a positive step
C10_FloorCount == ((FreqStop.n - FreqStart.n) \div FreqStep.n) + 1

C10_Calculated ==
    /\ last.op = "frequencies"
    /\ FreqType # StrVal(<<"custom">>)
    /\ FreqStart.t = "num" /\ FreqStop.t = "num" /\ FreqStep.t = "num"
    /\ FreqStep.n > 0

C10_Arithmetic ==
    \A i \in 1..Len(last.ret.l) : last.ret.l[i] = FreqStart.n + FreqStep.n * (i - 1)

C11_Joined(ks) == JoinToks([i \in 1..Len(ks) |-> <<ks[i]>>], "/")

C11_SeparatorFree(ks) == \A i \in 1..Len(ks) : ks[i] # "/"

\* the key lists getn is called with, as lists or as their joined strings
C11_KeySeqs == {c.keys.toks : c \in {x \in GetnCalls : ~x.keys.isstr}}

\* the outcome the last getn call had is the outcome rec
C11_Returned(rec) ==
    /\ last.raised = rec.raised
    /\ last.isdict = rec.node.isdict
    /\ last.ret = rec.node.val

\* a getn call with the default separator whose keys are the list ks or
\* its joined string has the outcome that both forms have on the merged
\* tree as it is now
C11_Agree(ks) ==
    (/\ last.op = "getn" /\ last.sep = "/"
     /\ C11_SeparatorFree(ks)
     /\ \/ last.keys = ListKeys(ks)
        \/ last.keys = StrKeys(C11_Joined(ks)))
    => /\ getn(config, StrKeys(C11_Joined(ks)), "/") = getn(config, ListKeys(ks), "/")
       /\ C11_Returned(getn(config, ListKeys(ks), "/"))
       /\ C11_Returned(getn(config, StrKeys(C11_Joined(ks)), "/"))

\* C11: for every merged tree and every separator-free list of keys, getn
\* of the joined string "k1/.../kn" and getn of the list [k1,...,kn] have
\* the same outcome (the same value or the same failure), computed from the
\* root of the merged tree as it is at the call.
C11_StringAndListAgree == \A ks \in C11_KeySeqs : C11_Agree(ks)

\* C11, amended: the same for every list of at least one key.  The empty
\* list gives the whole merged tree, its joined string "" is split into
\* the one key "" and gives None.
C11_NonEmptyStringAndListAgree ==
    \A ks \in C11_KeySeqs : ks # <<>> => C11_Agree(ks)

C11_Witness ==
    /\ last.op = "getn" /\ last.sep = "/"
    /\ last.keys = StrKeys(<<"galactic", "/", "synchrotron", "/", "template">>)
    /\ <<"galactic", "synchrotron", "template">> \in C11_KeySeqs
    /\ last.raised = "none"
    /\ last.ret = StrVal(<<"data", "/", "in.txt">>)
    /\ userconfig.set

\* read_config(src) twice in a row, from the merged tree as it is now
C12_Twice(src) ==
    read_config(configspec, read_config(configspec, config, src).config, src)

\* C12: merging is idempotent.  In every reachable state and for every
\* layer that passes validation, read_config of the layer followed at once
\* by read_config of the same layer succeeds and gives the merged
\* configuration that one read_config of the layer gives; a read_config
\* that repeats the successful one before it changes nothing.  (Every
\* merged configuration is first reached by the constructor or by a read, so
\* the states after those are the ones looked at.)
C12_MergeIdempotent ==
    /\ [](last.op \in {"init", "read_config", "read_userconfig"}
          => \A src \in Sources :
                read_config(configspec, config, src).raised = "none"
                => /\ C12_Twice(src).raised = "none"
                   /\ C12_Twice(src).config = read_config(configspec, config, src).config)
    /\ [][(/\ last.op = "read_config" /\ last.raised = "none"
           /\ last'.op = "read_config" /\ last'.src = last.src)
          => last'.raised = "none" /\ config' = config]_vars

\* a layer of two entries has just been merged over a configuration that
\* holds a key of an earlier layer
C12_Witness ==
    /\ last.op = "read_config" /\ last.raised = "none"
    /\ Cardinality(DOMAIN last.src.tree.vals) = 2
    /\ <<"frequency", "bogus">> \in DOMAIN config.vals \ DOMAIN last.src.tree.vals
    /\ config.vals[<<"logging", "filename">>] = StrVal(<<"run.log">>)
    /\ config # merge(construct(ConfigSpec, <<>>).config, validate(configspec, last.src.tree).tree)
    /\ C12_Twice(last.src).config = config

\* a file that read_userconfig can read and that passes validation
C13_ValidFile(file) ==
    file.status = "ok" /\ validate(configspec, file.tree).raised = "none"

\* C13: the path of the user config is recorded if and only if some
\* read_userconfig has succeeded.  The constructor, with or without
\* configs, leaves it unset; only a successful read_userconfig sets it, to
\* the absolute path of its file, and every successful one does; read_config
\* and a failed read_userconfig leave it as it was; while it is unset, a
\* read_userconfig of any valid file succeeds and records the file's path.
C13_RecordedIffUserconfigRead ==
    /\ [](last.op = "init" => ~userconfig.set)
    /\ [](~userconfig.set =>
             \A path \in UserPaths, file \in {f \in UserFiles : C13_ValidFile(f)} :
                LET r == read_userconfig(configspec, config, userconfig, path, file)
                IN  r.raised = "none" /\ r.userconfig = [set |-> TRUE, path |-> abspath(path)])
    /\ [][/\ userconfig' # userconfig
             => /\ ~userconfig.set /\ userconfig'.set
                /\ last'.op = "read_userconfig" /\ last'.raised = "none"
                /\ userconfig'.path = abspath(last'.upath)
          /\ (last'.op = "read_userconfig" /\ last'.raised = "none") => userconfig'.set
          /\ (last'.op = "read_userconfig" /\ last'.raised # "none")
             => userconfig' = userconfig
          /\ last'.op = "read_config" => userconfig' = userconfig]_vars

\* a manager constructed with a config has had a read_userconfig fail on
\* the content of its file, and holds no path
C13_Witness ==
    /\ last.op = "read_userconfig" /\ ~last.had_user
    /\ last.src.status = "ok" /\ last.raised = "ConfigError" /\ last.errors # {}
    /\ ~userconfig.set
    /\ config.vals[<<"logging", "filename">>] = StrVal(<<"run.log">>)
    /\ \E path \in UserPaths, file \in UserFiles :
          read_userconfig(configspec, config, userconfig, path, file).userconfig.set

\* ConfigManager(configs) for the configs given one by one so far
C14_Constructed == construct(configspec, last.configs)

\* C14: constructing the manager with configs [c1,...,cn] gives the merged
\* configuration that constructing it with no configs and calling
\* read_config(c1), ..., read_config(cn) in that order gives; when some ci
\* fails, the construction fails with the error of that read_config and
\* merges no config after ci.
C14_ConstructIsReadSequence ==
    /\ C14_Constructed.raised = last.raised
    /\ C14_Constructed.errors = last.errors
    /\ C14_Constructed.config = config
    /\ last.raised # "none"
       => \A c \in ConstructSources :
             construct(configspec, Append(last.configs, c)) = C14_Constructed

\* two configs were merged, the second over an undeclared key of the first
C14_Witness ==
    /\ Len(last.configs) = 2 /\ last.raised = "none"
    /\ last.configs[1] # last.configs[2]
    /\ <<"frequency", "bogus">> \in DOMAIN config.vals
    /\ config.vals[<<"logging", "filename">>] = StrVal(<<"run.log">>)
    /\ C14_Constructed.config = config

====
